---- MODULE Spec2Model ----
(***************************************************************************)
(* A model of tinybear's HTML validator (tinybear/html/validate_html.py).  *)
(*                                                                         *)
(* Strings are sequences of characters; a character is a one-character     *)
(* TLA+ string, except for the code point U+00B2 (SUPERSCRIPT TWO), which  *)
(* is written "U+00B2".  Offsets are Python's: the first character of a    *)
(* string is at offset 0.                                                  *)
(***************************************************************************)
EXTENDS Integers, Sequences, FiniteSets, TLC

VARIABLES html, allowed_tags, is_text_at_root_level_allowed,
          pc, soup, result, ran, position, current_pos,
          nested,      \* the frame of a call of _check_nested_tags: its
                       \* arguments tag_name, start_pos and its locals pos,
                       \* nested_level
          iterations   \* the iterations a raw-text loop has made

vars == <<html, allowed_tags, is_text_at_root_level_allowed,
          pc, soup, result, ran, position, current_pos, nested, iterations>>

(***************************************************************************)
(* Python's str primitives.                                                *)
(***************************************************************************)

\* s[i] for an offset 0 <= i < len(s)
At(s, i) == s[i + 1]

Min(a, b) == IF a < b THEN a ELSE b

Max(a, b) == IF a > b THEN a ELSE b

\* s[a:b] for a >= 0: the characters at the offsets a .. min(b, len(s)) - 1
Slice(s, a, b) ==
    LET hi == Min(b, Len(s))
    IN  IF a >= hi THEN << >> ELSE [k \in 1..(hi - a) |-> s[a + k]]

\* s[i:i+len(sub)] == sub
OccursAt(s, sub, i) ==
    /\ i >= 0
    /\ i + Len(sub) <= Len(s)
    /\ \A k \in 1..Len(sub) : s[i + k] = sub[k]

\* s.find(sub, start): the lowest offset >= start at which sub occurs, or -1
Find(s, sub, start) ==
    LET hits == {i \in start..(Len(s) - Len(sub)) : OccursAt(s, sub, i)}
    IN  IF hits = {} THEN -1 ELSE CHOOSE i \in hits : \A j \in hits : i <= j

\* s.startswith(prefix)
StartsWith(s, prefix) == OccursAt(s, prefix, 0)

\* The characters c with c.isdigit(): the decimal digits and, as Python
\* documents, the digits "that need special handling, such as the
\* compatibility superscript digits"; U+00B2 is one of those.
DecimalDigits == {"0", "1", "2", "3", "4", "5", "6", "7", "8", "9"}

PyDigits == DecimalDigits \cup {"U+00B2"}

\* s.isdigit(): s is not empty and each of its characters is a digit
IsDigit(s) == Len(s) > 0 /\ \A k \in 1..Len(s) : s[k] \in PyDigits

(***************************************************************************)
(* Results.  validate_html returns None or raises ParsingError with one    *)
(* of eleven messages; a result records which one and what the message     *)
(* interpolates.                                                           *)
(***************************************************************************)

NoResult ==
    [kind |-> "none", name |-> << >>, parent |-> << >>, at |-> -1, snippet |-> << >>]

Ok == [NoResult EXCEPT !.kind = "Ok"]

\* No call of _check_nested_tags is under way
NoFrame == [tag_name |-> << >>, start_pos |-> 0, pos |-> 0, nested_level |-> 0]

\* A ParsingError of the raw-text scanners: what failed, the name, the offset
\* and the piece of html its message shows
ParsingError(k, n, p, s) ==
    [kind |-> k, name |-> n, parent |-> << >>, at |-> p, snippet |-> s]

\* A ParsingError of the tree checks: what failed, the tag's name and its
\* parent's
TreeError(k, n, par) == [NoResult EXCEPT !.kind = k, !.name = n, !.parent = par]

\* html[position:position + 50] of the ampersand messages
SnippetLen == 50

\* html[max(0, pos - 20):pos + 20] of the unclosed-tag messages
WindowHalf == 20

Window(s, pos) == Slice(s, Max(0, pos - WindowHalf), pos + WindowHalf)

(***************************************************************************)
(* The ampersand scanner.                                                  *)
(***************************************************************************)

NamedEntities == {<<"a", "m", "p">>, <<"l", "t">>, <<"g", "t">>,
                  <<"q", "u", "o", "t">>, <<"a", "p", "o", "s">>}

\* entity.startswith("#") and entity[1:].isdigit(), or entity in the list
EntityAccepted(entity) ==
    \/ StartsWith(entity, <<"#">>) /\ IsDigit(Slice(entity, 1, Len(entity)))
    \/ entity \in NamedEntities

\* _check_entity_with_ampersand searching the semicolon from the start of
\* the string instead of after the "&"
check_entity_with_ampersand_FindsFromStart(h, pos) ==
    LET semicolon_pos == Find(h, <<";">>, 0)
        entity == Slice(h, pos + 1, semicolon_pos)
    IN  IF semicolon_pos = -1
        THEN ParsingError("UnescapedAmpersand", << >>, pos,
                          Slice(h, pos, pos + SnippetLen))
        ELSE IF ~EntityAccepted(entity)
        THEN ParsingError("InvalidEntity", entity, pos,
                          Slice(h, pos, pos + SnippetLen))
        ELSE [Ok EXCEPT !.at = semicolon_pos]

\* _check_entity_with_ampersand: Ok with the offset of the closing
\* semicolon in "at", or the error raised
check_entity_with_ampersand(h, pos) ==
    LET semicolon_pos == Find(h, <<";">>, pos + 1)
        entity == Slice(h, pos + 1, semicolon_pos)
    IN  IF semicolon_pos = -1
        THEN ParsingError("UnescapedAmpersand", << >>, pos,
                          Slice(h, pos, pos + SnippetLen))
        ELSE IF ~EntityAccepted(entity)
        THEN ParsingError("InvalidEntity", entity, pos,
                          Slice(h, pos, pos + SnippetLen))
        ELSE [Ok EXCEPT !.at = semicolon_pos]

\* One iteration of the loop of _check_for_unescaped_ampersand at the
\* offset pos < len(html): the next offset in "at", or the error raised
AmpersandIteration(h, pos) ==
    IF At(h, pos) = "&"
    THEN LET r == check_entity_with_ampersand(h, pos)
         IN  IF r.kind = "Ok" THEN [Ok EXCEPT !.at = r.at + 1] ELSE r
    ELSE [Ok EXCEPT !.at = pos + 1]

\* _check_for_unescaped_ampersand, from the offset pos on
RECURSIVE AmpersandLoop(_, _)
AmpersandLoop(h, pos) ==
    IF pos < Len(h)
    THEN LET r == AmpersandIteration(h, pos)
         IN  IF r.kind = "Ok" THEN AmpersandLoop(h, r.at) ELSE r
    ELSE Ok

check_for_unescaped_ampersand(h) == AmpersandLoop(h, 0)

(***************************************************************************)
(* Character classes of the unclosed-tag scanner.                          *)
(***************************************************************************)

LowerLetters == {"a", "b", "c", "d", "e", "f", "g", "h", "i", "j", "k", "l",
                 "m", "n", "o", "p", "q", "r", "s", "t", "u", "v", "w", "x",
                 "y", "z"}

\* c.lower() of the upper-case letters
LowerCase == [A |-> "a", B |-> "b", C |-> "c", D |-> "d", E |-> "e",
              F |-> "f", G |-> "g", H |-> "h", I |-> "i", J |-> "j",
              K |-> "k", L |-> "l", M |-> "m", N |-> "n", O |-> "o",
              P |-> "p", Q |-> "q", R |-> "r", S |-> "s", T |-> "t",
              U |-> "u", V |-> "v", W |-> "w", X |-> "x", Y |-> "y",
              Z |-> "z"]

UpperLetters == DOMAIN LowerCase

\* c.isalnum()
IsAlnum(c) == c \in LowerLetters \cup UpperLetters \cup PyDigits

\* s.lower()
Lower(s) == [k \in 1..Len(s) |->
                IF s[k] \in UpperLetters THEN LowerCase[s[k]] ELSE s[k]]

\* html[tag_end].isalnum() or html[tag_end] in "-_"
IsTagNameChar(c) == IsAlnum(c) \/ c \in {"-", "_"}

(***************************************************************************)
(* The unclosed-tag scanner.                                               *)
(***************************************************************************)

\* The while loop of _find_tag_end: the first offset >= i that holds no
\* tag-name character
RECURSIVE TagNameEnd(_, _)
TagNameEnd(h, i) ==
    IF i < Len(h) /\ IsTagNameChar(At(h, i)) THEN TagNameEnd(h, i + 1) ELSE i

\* _find_tag_end: (tag_name, tag_end, is_closing)
find_tag_end(h, start_pos) ==
    IF start_pos >= Len(h) \/ At(h, start_pos) # "<"
    THEN [tag_name |-> << >>, tag_end |-> start_pos, is_closing |-> FALSE]
    ELSE LET is_closing == start_pos + 1 < Len(h) /\ At(h, start_pos + 1) = "/"
             tag_start == IF is_closing THEN start_pos + 2 ELSE start_pos + 1
             tag_end == TagNameEnd(h, tag_start)
         IN  [tag_name |-> Lower(Slice(h, tag_start, tag_end)),
              tag_end |-> tag_end, is_closing |-> is_closing]

SelfClosingTags == {<<"b", "r">>, <<"i", "m", "g">>, <<"h", "r">>,
                    <<"i", "n", "p", "u", "t">>, <<"m", "e", "t", "a">>,
                    <<"l", "i", "n", "k">>}

is_self_closing_tag(tag_name) == tag_name \in SelfClosingTags

SpecialTags == {<<"!", "d", "o", "c", "t", "y", "p", "e">>, <<"!", "-", "-">>}

is_special_tag(tag_name) == tag_name \in SpecialTags

\* The while loop of _check_nested_tags, entered with (pos, nested_level):
\* the nested_level it ends with
RECURSIVE NestedLoop(_, _, _, _)
NestedLoop(h, tag_name, pos, nested_level) ==
    IF pos < Len(h) /\ nested_level > 0
    THEN LET next_open == Find(h, <<"<">> \o tag_name, pos)
             next_close == Find(h, <<"<", "/">> \o tag_name, pos)
         IN  IF next_open # -1 /\ (next_close = -1 \/ next_open < next_close)
             THEN NestedLoop(h, tag_name, next_open + 1, nested_level + 1)
             ELSE IF next_close # -1
             THEN NestedLoop(h, tag_name, next_close + 1, nested_level - 1)
             ELSE nested_level
    ELSE nested_level

\* _check_nested_tags comparing the offsets with <= : a closing tag that
\* comes after the next opening one is taken for one that comes before it
check_nested_tags_IgnoresNesting(h, tag_name, start_pos) ==
    LET closing_tag == <<"<", "/">> \o tag_name \o <<">">>
        next_open == Find(h, <<"<">> \o tag_name, start_pos + 1)
        next_close == Find(h, closing_tag, start_pos + 1)
        unclosed == ParsingError("UnclosedTag", tag_name, start_pos,
                                 Window(h, start_pos))
    IN  IF next_open = -1 \/ next_close # -1
        THEN IF next_close = -1 THEN unclosed ELSE Ok
        ELSE IF NestedLoop(h, tag_name, start_pos + 1, 1) > 0
        THEN unclosed
        ELSE Ok

\* _check_nested_tags: Ok, or the error raised
check_nested_tags(h, tag_name, start_pos) ==
    LET closing_tag == <<"<", "/">> \o tag_name \o <<">">>
        next_open == Find(h, <<"<">> \o tag_name, start_pos + 1)
        next_close == Find(h, closing_tag, start_pos + 1)
        unclosed == ParsingError("UnclosedTag", tag_name, start_pos,
                                 Window(h, start_pos))
    IN  IF next_open = -1 \/ (next_close # -1 /\ next_close < next_open)
        THEN IF next_close = -1 THEN unclosed ELSE Ok
        ELSE IF NestedLoop(h, tag_name, start_pos + 1, 1) > 0
        THEN unclosed
        ELSE Ok

\* One iteration of the loop of _check_for_unclosed_tags at the offset
\* pos < len(html): the next offset in "at", or the error raised
UnclosedIteration(h, pos) ==
    IF At(h, pos) # "<"
    THEN [Ok EXCEPT !.at = pos + 1]
    ELSE LET t == find_tag_end(h, pos)
             closing_angle_pos == Find(h, <<">">>, pos)
         IN  IF t.tag_name = << >>
             THEN [Ok EXCEPT !.at = pos + 1]
             ELSE IF is_special_tag(t.tag_name)
             THEN IF closing_angle_pos = -1
                  THEN ParsingError("UnclosedTag", << >>, pos, Window(h, pos))
                  ELSE [Ok EXCEPT !.at = closing_angle_pos + 1]
             ELSE IF closing_angle_pos = -1
             THEN ParsingError("UnclosedAngleBracket", << >>, pos,
                               Window(h, pos))
             ELSE LET r == IF ~t.is_closing /\ ~is_self_closing_tag(t.tag_name)
                           THEN check_nested_tags(h, t.tag_name, pos)
                           ELSE Ok
                  IN  IF r.kind = "Ok"
                      THEN [Ok EXCEPT !.at = closing_angle_pos + 1]
                      ELSE r

\* _check_for_unclosed_tags, from the offset pos on
RECURSIVE UnclosedLoop(_, _)
UnclosedLoop(h, pos) ==
    IF pos < Len(h)
    THEN LET r == UnclosedIteration(h, pos)
         IN  IF r.kind = "Ok" THEN UnclosedLoop(h, r.at) ELSE r
    ELSE Ok

check_for_unclosed_tags(h) == UnclosedLoop(h, 0)

(***************************************************************************)
(* BeautifulSoup(html, "html5lib"): the tokenizer.                         *)
(*                                                                         *)
(* The library is not part of the repository; the model follows html5lib's *)
(* tokenizer and tree builder on the inputs of this model: strings without *)
(* "=", quotes, "?" and NUL, in which "!" is always followed by "--" or by *)
(* "doctype", and whose only "&" are the references the ampersand scanner  *)
(* lets through (validate_html parses after that scan).                    *)
(***************************************************************************)

\* html5lib's spaceCharacters
HtmlSpace == {" ", "\t", "\n", "\f", "\r"}

\* The code points c with chr(c).isspace(), which str.strip() removes
PyWhitespaceCodes == {9, 10, 11, 12, 13, 28, 29, 30, 31, 32, 133, 160, 5760}
                         \cup (8192..8202) \cup {8232, 8233, 8239, 8287, 12288}

\* The character a numeric reference to the code point n decodes to
\* (consumeNumberEntity): U+FFFD for 0, the surrogates and what lies beyond
\* Unicode, a windows-1252 character for 128..159, else chr(n)
Chr(n) ==
    IF n = 0 \/ n \in 55296..57343 \/ n > 1114111 THEN "U+FFFD"
    ELSE IF n \in 128..159 THEN "cp1252(" \o ToString(n) \o ")"
    ELSE "chr(" \o ToString(n) \o ")"

\* c.isspace() of a character of a text node
IsPySpace(c) == c \in HtmlSpace \/ c \in {Chr(n) : n \in PyWhitespaceCodes \ (128..159)}

\* The characters a decoded reference yields as an html5lib SpaceCharacters
\* token
IsHtmlSpace(c) == c \in HtmlSpace \/ c \in {Chr(9), Chr(10), Chr(12), Chr(13), Chr(32)}

DigitValue == [d \in DecimalDigits |->
                 CASE d = "0" -> 0 [] d = "1" -> 1 [] d = "2" -> 2 [] d = "3" -> 3
                   [] d = "4" -> 4 [] d = "5" -> 5 [] d = "6" -> 6 [] d = "7" -> 7
                   [] d = "8" -> 8 [] d = "9" -> 9]

\* int(digits), capped above Unicode's last code point
RECURSIVE DecimalValue(_)
DecimalValue(ds) ==
    IF ds = << >> THEN 0
    ELSE Min(1114112, 10 * DecimalValue(SubSeq(ds, 1, Len(ds) - 1))
                        + DigitValue[ds[Len(ds)]])

\* The first offset >= i that holds no ASCII digit
RECURSIVE DigitsEnd(_, _)
DigitsEnd(h, i) ==
    IF i < Len(h) /\ At(h, i) \in DecimalDigits THEN DigitsEnd(h, i + 1) ELSE i

\* The first offset >= i that holds whitespace, "/" or ">": where the tag
\* name state stops
RECURSIVE HtmlNameEnd(_, _)
HtmlNameEnd(h, i) ==
    IF i < Len(h) /\ At(h, i) \notin HtmlSpace \cup {"/", ">"}
    THEN HtmlNameEnd(h, i + 1)
    ELSE i

CharToken(cs) == [type |-> "char", name |-> << >>, data |-> cs]

CommentToken(cs) == [type |-> "comment", name |-> << >>, data |-> cs]

TagToken(t, n) == [type |-> t, name |-> n, data |-> << >>]

\* The token read at the offset i < len(html), if any, and the offset after it
NextToken(h, i) ==
    LET c == At(h, i)
        rest == Len(h) - i
        gt == Find(h, <<">">>, i)
        one == [toks |-> <<CharToken(<<c>>)>>, next |-> i + 1]
    IN  IF c = "&"
        THEN IF rest >= 2 /\ At(h, i + 1) = "#"
             THEN LET e == DigitsEnd(h, i + 2)
                  IN  IF e = i + 2
                      THEN [toks |-> <<CharToken(<<"&", "#">>)>>, next |-> i + 2]
                      ELSE [toks |-> <<CharToken(
                                <<Chr(DecimalValue(Slice(h, i + 2, e)))>>)>>,
                            next |-> IF e < Len(h) /\ At(h, e) = ";"
                                     THEN e + 1 ELSE e]
             ELSE IF OccursAt(h, <<"a", "m", "p", ";">>, i + 1)
             THEN [toks |-> <<CharToken(<<Chr(38)>>)>>, next |-> i + 5]
             ELSE IF OccursAt(h, <<"l", "t", ";">>, i + 1)
             THEN [toks |-> <<CharToken(<<Chr(60)>>)>>, next |-> i + 4]
             ELSE IF OccursAt(h, <<"g", "t", ";">>, i + 1)
             THEN [toks |-> <<CharToken(<<Chr(62)>>)>>, next |-> i + 4]
             ELSE IF OccursAt(h, <<"q", "u", "o", "t", ";">>, i + 1)
             THEN [toks |-> <<CharToken(<<Chr(34)>>)>>, next |-> i + 6]
             ELSE IF OccursAt(h, <<"a", "p", "o", "s", ";">>, i + 1)
             THEN [toks |-> <<CharToken(<<Chr(39)>>)>>, next |-> i + 6]
             ELSE one
        ELSE IF c # "<" THEN one
        ELSE IF rest = 1 THEN one
        ELSE LET d == At(h, i + 1)
             IN  IF d \in LowerLetters \cup UpperLetters
                 THEN \* tag name state, then the attribute states up to ">"
                      IF gt = -1 THEN [toks |-> << >>, next |-> Len(h)]
                      ELSE [toks |-> <<TagToken("start",
                                Lower(Slice(h, i + 1, HtmlNameEnd(h, i + 1))))>>,
                            next |-> gt + 1]
                 ELSE IF d = ">"
                 THEN [toks |-> <<CharToken(<<"<", ">">>)>>, next |-> i + 2]
                 ELSE IF d = "/"
                 THEN IF rest = 2
                      THEN [toks |-> <<CharToken(<<"<", "/">>)>>, next |-> i + 2]
                      ELSE IF At(h, i + 2) \in LowerLetters \cup UpperLetters
                      THEN IF gt = -1 THEN [toks |-> << >>, next |-> Len(h)]
                           ELSE [toks |-> <<TagToken("end",
                                     Lower(Slice(h, i + 2, HtmlNameEnd(h, i + 2))))>>,
                                 next |-> gt + 1]
                      ELSE IF At(h, i + 2) = ">"
                      THEN [toks |-> << >>, next |-> i + 3]
                      ELSE \* bogus comment
                           [toks |-> <<CommentToken(Slice(h, i + 2,
                                        IF gt = -1 THEN Len(h) ELSE gt))>>,
                            next |-> IF gt = -1 THEN Len(h) ELSE gt + 1]
                 ELSE IF d = "!"
                 THEN IF OccursAt(h, <<"-", "-">>, i + 2)
                      THEN IF OccursAt(h, <<">">>, i + 4)
                           THEN [toks |-> <<CommentToken(<< >>)>>, next |-> i + 5]
                           ELSE IF OccursAt(h, <<"-", ">">>, i + 4)
                           THEN [toks |-> <<CommentToken(<< >>)>>, next |-> i + 6]
                           ELSE LET e == Find(h, <<"-", "-", ">">>, i + 4)
                                IN  IF e = -1
                                    THEN [toks |-> <<CommentToken(
                                              Slice(h, i + 4, Len(h)))>>,
                                          next |-> Len(h)]
                                    ELSE [toks |-> <<CommentToken(
                                              Slice(h, i + 4, e))>>,
                                          next |-> e + 3]
                      ELSE \* a doctype
                           [toks |-> <<TagToken("doctype", << >>)>>,
                            next |-> IF gt = -1 THEN Len(h) ELSE gt + 1]
                 ELSE one

RECURSIVE Tokenize(_, _)
Tokenize(h, i) ==
    IF i >= Len(h) THEN << >>
    ELSE LET t == NextToken(h, i) IN t.toks \o Tokenize(h, t.next)

(***************************************************************************)
(* BeautifulSoup(html, "html5lib"): the tree builder.                      *)
(*                                                                         *)
(* The tree is the sequence of its nodes in document order; a node names   *)
(* its parent by index, 0 for the document itself.  "open" is the stack of *)
(* open elements, "phase" the insertion mode.  The elements handled are    *)
(* html, head, title, body, h1, p, div, ul, ol, li, br, and elements of    *)
(* any other name treated as html5lib treats ordinary ones (span, sub,     *)
(* sup, unknown names).  The formatting elements (a, b, i, u, em, strong)  *)
(* are handled for the inputs that end each of them while it is the        *)
(* current node, where nothing is adopted or reconstructed.  Input strings *)
(* name no table element, no heading but h1, no head element but title,    *)
(* and a title holds plain text.                                           *)
(***************************************************************************)

TagNode(n, par) == [kind |-> "tag", name |-> n, parent |-> par, text |-> << >>]

TextNode(cs, par) == [kind |-> "text", name |-> << >>, parent |-> par, text |-> cs]

CommentNode(cs, par) ==
    [kind |-> "comment", name |-> << >>, parent |-> par, text |-> cs]

NameP == <<"p">>

NameLi == <<"l", "i">>

NameUl == <<"u", "l">>

NameOl == <<"o", "l">>

NameDiv == <<"d", "i", "v">>

NameBr == <<"b", "r">>

NameHtml == <<"h", "t", "m", "l">>

NameHead == <<"h", "e", "a", "d">>

NameBody == <<"b", "o", "d", "y">>

NameTitle == <<"t", "i", "t", "l", "e">>

NameH1 == <<"h", "1">>

\* html5lib's headingElements, among the elements handled
HeadingElements == {NameH1}

\* html5lib's specialElements, among the elements handled
SpecialElements == {NameHtml, NameHead, NameTitle, NameBody, NameH1, NameP,
                    NameDiv, NameUl, NameOl, NameLi, NameBr}

\* The start tags InBodyPhase hands to startTagCloseP, among those handled
ClosePStartTags == {NameP, NameDiv, NameUl, NameOl}

\* The end tags InBodyPhase hands to endTagBlock, among those handled
BlockEndTags == {NameDiv, NameUl, NameOl}

\* The end tags the phases before the body do not ignore
ImplyingEndTags == {NameHead, NameBody, NameHtml, NameBr}

Last(s) == s[Len(s)]

NameOf(st, i) == st.nodes[i].name

\* TreeBuilder.elementInScope(target, variant): walking the stack down from
\* the current node, target is met before an element of markers
RECURSIVE InScopeFrom(_, _, _, _)
InScopeFrom(st, k, target, markers) ==
    IF k = 0 THEN FALSE
    ELSE IF NameOf(st, st.open[k]) = target THEN TRUE
    ELSE IF NameOf(st, st.open[k]) \in markers THEN FALSE
    ELSE InScopeFrom(st, k - 1, target, markers)

elementInScope(st, target, markers) ==
    InScopeFrom(st, Len(st.open), target, markers)

\* TreeBuilder.generateImpliedEndTags(exclude), among the elements handled
RECURSIVE generateImpliedEndTags(_, _)
generateImpliedEndTags(st, exclude) ==
    LET name == NameOf(st, Last(st.open))
    IN  IF name \in {NameLi, NameP} /\ name # exclude
        THEN generateImpliedEndTags(
                 [st EXCEPT !.open = SubSeq(st.open, 1, Len(st.open) - 1)],
                 exclude)
        ELSE st

\* node = openElements.pop(); while node.name != name: node = openElements.pop()
RECURSIVE PopUntilNamed(_, _)
PopUntilNamed(st, name) ==
    LET top == Last(st.open)
        popped == [st EXCEPT !.open = SubSeq(st.open, 1, Len(st.open) - 1)]
    IN  IF NameOf(st, top) = name THEN popped ELSE PopUntilNamed(popped, name)

\* TreeBuilder.insertElement
insertElement(st, name) ==
    [st EXCEPT !.nodes = Append(st.nodes, TagNode(name, Last(st.open))),
               !.open = Append(st.open, Len(st.nodes) + 1)]

\* TreeBuilder.insertText with bs4's Element.insertText: the characters join
\* the current node's last child when that is a text node
insertText(st, cs) ==
    LET cur == Last(st.open)
        children == {j \in 1..Len(st.nodes) : st.nodes[j].parent = cur}
        n == IF children = {} THEN 0
             ELSE CHOOSE j \in children : \A k \in children : k <= j
    IN  IF n > 0 /\ st.nodes[n].kind = "text"
        THEN [st EXCEPT !.nodes[n].text = st.nodes[n].text \o cs]
        ELSE [st EXCEPT !.nodes = Append(st.nodes, TextNode(cs, cur))]

\* TreeBuilder.insertComment(token, parent)
insertComment(st, cs, par) ==
    [st EXCEPT !.nodes = Append(st.nodes, CommentNode(cs, par))]

\* InBodyPhase.endTagP
endTagP(st) ==
    LET s1 == IF elementInScope(st, NameP, {NameHtml})
              THEN st
              ELSE insertElement(st, NameP)
    IN  PopUntilNamed(generateImpliedEndTags(s1, NameP), NameP)

\* InBodyPhase.startTagCloseP
startTagCloseP(st, name) ==
    insertElement(IF elementInScope(st, NameP, {NameHtml}) THEN endTagP(st) ELSE st,
                  name)

\* InBodyPhase.endTagListItem for li
endTagListItem(st) ==
    IF elementInScope(st, NameLi, {NameHtml, NameOl, NameUl})
    THEN PopUntilNamed(generateImpliedEndTags(st, NameLi), NameLi)
    ELSE st

\* The loop of InBodyPhase.startTagListItem over reversed(openElements)
RECURSIVE ListItemLoop(_, _)
ListItemLoop(st, k) ==
    IF k = 0 THEN st
    ELSE LET name == NameOf(st, st.open[k])
         IN  IF name = NameLi THEN endTagListItem(st)
             ELSE IF name \in SpecialElements \ {NameDiv, NameP} THEN st
             ELSE ListItemLoop(st, k - 1)

\* InBodyPhase.startTagListItem for li
startTagListItem(st) ==
    LET s1 == ListItemLoop(st, Len(st.open))
        s2 == IF elementInScope(s1, NameP, {NameHtml}) THEN endTagP(s1) ELSE s1
    IN  insertElement(s2, NameLi)

\* InBodyPhase.startTagVoidFormatting for br, and endTagBr
startTagVoid(st, name) ==
    LET s1 == insertElement(st, name)
    IN  [s1 EXCEPT !.open = SubSeq(s1.open, 1, Len(s1.open) - 1)]

\* InBodyPhase.endTagBlock
endTagBlock(st, name) ==
    IF elementInScope(st, name, {NameHtml})
    THEN PopUntilNamed(generateImpliedEndTags(st, << >>), name)
    ELSE st

\* The loop of InBodyPhase.endTagOther over openElements[::-1]
RECURSIVE EndTagOtherLoop(_, _, _)
EndTagOtherLoop(st, k, name) ==
    IF k = 0 THEN st
    ELSE IF NameOf(st, st.open[k]) = name
    THEN LET s1 == generateImpliedEndTags(st, name)
         IN  [s1 EXCEPT !.open = SubSeq(st.open, 1, k - 1)]
    ELSE IF NameOf(st, st.open[k]) \in SpecialElements THEN st
    ELSE EndTagOtherLoop(st, k - 1, name)

endTagOther(st, name) == EndTagOtherLoop(st, Len(st.open), name)

\* InBodyPhase.startTagHeading
startTagHeading(st, name) ==
    LET s1 == IF elementInScope(st, NameP, {NameHtml}) THEN endTagP(st) ELSE st
        s2 == IF NameOf(s1, Last(s1.open)) \in HeadingElements
              THEN [s1 EXCEPT !.open = SubSeq(s1.open, 1, Len(s1.open) - 1)]
              ELSE s1
    IN  insertElement(s2, name)

\* item = openElements.pop(); while item.name not in headingElements: ...
RECURSIVE PopUntilHeading(_)
PopUntilHeading(st) ==
    LET top == Last(st.open)
        popped == [st EXCEPT !.open = SubSeq(st.open, 1, Len(st.open) - 1)]
    IN  IF NameOf(st, top) \in HeadingElements THEN popped
        ELSE PopUntilHeading(popped)

\* InBodyPhase.endTagHeading
endTagHeading(st) ==
    IF \E h \in HeadingElements : elementInScope(st, h, {NameHtml})
    THEN PopUntilHeading(generateImpliedEndTags(st, << >>))
    ELSE st

\* InHeadPhase.startTagTitle (parseRCDataRawtext): the title is inserted and
\* the tree builder goes to the text phase, to come back where it was
startTagTitle(st) ==
    [insertElement(st, NameTitle) EXCEPT !.phase = "text", !.original = st.phase]

\* InBodyPhase on one token
InBody(st, tok) ==
    IF tok.type = "char" THEN insertText(st, tok.data)
    ELSE IF tok.type = "comment" THEN insertComment(st, tok.data, Last(st.open))
    ELSE IF tok.type = "start"
    THEN IF tok.name \in {NameHtml, NameBody, NameHead} THEN st
         ELSE IF tok.name = NameTitle THEN startTagTitle(st)
         ELSE IF tok.name \in ClosePStartTags THEN startTagCloseP(st, tok.name)
         ELSE IF tok.name \in HeadingElements THEN startTagHeading(st, tok.name)
         ELSE IF tok.name = NameLi THEN startTagListItem(st)
         ELSE IF tok.name = NameBr THEN startTagVoid(st, NameBr)
         ELSE insertElement(st, tok.name)
    ELSE IF tok.type = "end"
    THEN IF tok.name = NameBody
         THEN IF elementInScope(st, NameBody, {NameHtml})
              THEN [st EXCEPT !.phase = "afterBody"]
              ELSE st
         ELSE IF tok.name = NameHtml
         THEN \* endTagHtml: as </body>, then </html> after the body
              IF elementInScope(st, NameBody, {NameHtml})
              THEN [st EXCEPT !.phase = "afterAfterBody"]
              ELSE st
         ELSE IF tok.name = NameP THEN endTagP(st)
         ELSE IF tok.name = NameLi THEN endTagListItem(st)
         ELSE IF tok.name \in BlockEndTags THEN endTagBlock(st, tok.name)
         ELSE IF tok.name \in HeadingElements THEN endTagHeading(st)
         ELSE IF tok.name = NameBr THEN startTagVoid(st, NameBr)
         ELSE endTagOther(st, tok.name)
    ELSE st

\* The token is whitespace
IsSpaceToken(tok) == tok.type = "char" /\ IsHtmlSpace(tok.data[1])

\* AfterHeadPhase on one token: anything but whitespace, comments and the
\* tags of the skeleton implies <body> and is handled in the body
AfterHead(st, tok) ==
    IF IsSpaceToken(tok) THEN insertText(st, tok.data)
    ELSE IF tok.type = "comment" THEN insertComment(st, tok.data, Last(st.open))
    ELSE IF tok.type = "doctype" THEN st
    ELSE IF tok.type = "start" /\ tok.name \in {NameHtml, NameHead} THEN st
    ELSE IF tok.type = "start" /\ tok.name = NameBody
    THEN [insertElement(st, NameBody) EXCEPT !.phase = "inBody"]
    ELSE IF tok.type = "start" /\ tok.name = NameTitle
    THEN \* startTagFromHead: the title goes into the head
         LET head == CHOOSE j \in 1..Len(st.nodes) : st.nodes[j].name = NameHead
         IN  [st EXCEPT !.nodes = Append(st.nodes, TagNode(NameTitle, head)),
                        !.open = Append(st.open, Len(st.nodes) + 1),
                        !.phase = "text", !.original = "afterHead"]
    ELSE IF tok.type = "end" /\ tok.name \notin {NameBody, NameHtml, NameBr} THEN st
    ELSE InBody([insertElement(st, NameBody) EXCEPT !.phase = "inBody"], tok)

\* InHeadPhase on one token
InHead(st, tok) ==
    LET headEnded == [st EXCEPT !.open = SubSeq(st.open, 1, Len(st.open) - 1),
                                !.phase = "afterHead"]
    IN  IF IsSpaceToken(tok) THEN insertText(st, tok.data)
        ELSE IF tok.type = "comment"
        THEN insertComment(st, tok.data, Last(st.open))
        ELSE IF tok.type = "doctype" THEN st
        ELSE IF tok.type = "start" /\ tok.name \in {NameHtml, NameHead} THEN st
        ELSE IF tok.type = "start" /\ tok.name = NameTitle THEN startTagTitle(st)
        ELSE IF tok.type = "end" /\ tok.name = NameHead THEN headEnded
        ELSE IF tok.type = "end" /\ tok.name \notin {NameBody, NameHtml, NameBr}
        THEN st
        ELSE AfterHead(headEnded, tok)

\* BeforeHeadPhase on one token
BeforeHead(st, tok) ==
    LET inHead == [insertElement(st, NameHead) EXCEPT !.phase = "inHead"]
    IN  IF IsSpaceToken(tok) THEN st
        ELSE IF tok.type = "comment"
        THEN insertComment(st, tok.data, Last(st.open))
        ELSE IF tok.type = "doctype" THEN st
        ELSE IF tok.type = "start" /\ tok.name = NameHtml THEN st
        ELSE IF tok.type = "start" /\ tok.name = NameHead THEN inHead
        ELSE IF tok.type = "end" /\ tok.name \notin ImplyingEndTags THEN st
        ELSE InHead(inHead, tok)

\* BeforeHtmlPhase.insertHtmlElement
insertHtmlElement(st) ==
    [st EXCEPT !.nodes = Append(st.nodes, TagNode(NameHtml, 0)),
               !.open = <<Len(st.nodes) + 1>>,
               !.phase = "beforeHead"]

\* InitialPhase and BeforeHtmlPhase on one token: whitespace and end tags
\* are dropped, a comment becomes a child of the document, a doctype is
\* kept outside the tree checked here
BeforeHtml(st, tok) ==
    IF IsSpaceToken(tok) THEN st
    ELSE IF tok.type = "comment" THEN insertComment(st, tok.data, 0)
    ELSE IF tok.type = "doctype" THEN st
    ELSE IF tok.type = "start" /\ tok.name = NameHtml THEN insertHtmlElement(st)
    ELSE IF tok.type = "end" /\ tok.name \notin ImplyingEndTags THEN st
    ELSE BeforeHead(insertHtmlElement(st), tok)

\* TextPhase on one token: the characters of the title, then its end tag
Text(st, tok) ==
    IF tok.type = "char" THEN insertText(st, tok.data)
    ELSE IF tok.type = "end"
    THEN [st EXCEPT !.open = SubSeq(st.open, 1, Len(st.open) - 1),
                    !.phase = st.original]
    ELSE st

\* AfterBodyPhase on one token
AfterBody(st, tok) ==
    IF IsSpaceToken(tok) THEN InBody(st, tok)
    ELSE IF tok.type = "comment" THEN insertComment(st, tok.data, st.open[1])
    ELSE IF tok.type = "doctype" THEN st
    ELSE IF tok.type = "start" /\ tok.name = NameHtml THEN st
    ELSE IF tok.type = "end" /\ tok.name = NameHtml
    THEN [st EXCEPT !.phase = "afterAfterBody"]
    ELSE InBody([st EXCEPT !.phase = "inBody"], tok)

\* AfterAfterBodyPhase on one token
AfterAfterBody(st, tok) ==
    IF IsSpaceToken(tok) THEN InBody(st, tok)
    ELSE IF tok.type = "comment" THEN insertComment(st, tok.data, 0)
    ELSE IF tok.type = "doctype" THEN st
    ELSE IF tok.type = "start" /\ tok.name = NameHtml THEN st
    ELSE InBody([st EXCEPT !.phase = "inBody"], tok)

\* The phase the tree builder is in, on one token
ProcessToken(st, tok) ==
    CASE st.phase = "beforeHtml" -> BeforeHtml(st, tok)
      [] st.phase = "beforeHead" -> BeforeHead(st, tok)
      [] st.phase = "inHead" -> InHead(st, tok)
      [] st.phase = "text" -> Text(st, tok)
      [] st.phase = "afterHead" -> AfterHead(st, tok)
      [] st.phase = "inBody" -> InBody(st, tok)
      [] st.phase = "afterBody" -> AfterBody(st, tok)
      [] st.phase = "afterAfterBody" -> AfterAfterBody(st, tok)

\* processEOF: the phases before the body go on to imply html, head and
\* body; an open title is ended first
RECURSIVE ProcessEOF(_)
ProcessEOF(st) ==
    CASE st.phase = "beforeHtml" -> ProcessEOF(insertHtmlElement(st))
      [] st.phase = "beforeHead" ->
            ProcessEOF([insertElement(st, NameHead) EXCEPT !.phase = "inHead"])
      [] st.phase = "inHead" ->
            ProcessEOF([st EXCEPT !.open = SubSeq(st.open, 1, Len(st.open) - 1),
                                  !.phase = "afterHead"])
      [] st.phase = "text" ->
            ProcessEOF([st EXCEPT !.open = SubSeq(st.open, 1, Len(st.open) - 1),
                                  !.phase = st.original])
      [] st.phase = "afterHead" ->
            [insertElement(st, NameBody) EXCEPT !.phase = "inBody"]
      [] OTHER -> st

RECURSIVE TreeLoop(_, _, _)
TreeLoop(st, toks, k) ==
    IF k > Len(toks) THEN ProcessEOF(st)
    ELSE TreeLoop(ProcessToken(st, toks[k]), toks, k + 1)

\* BeautifulSoup(html, "html5lib")
BeautifulSoup(h) ==
    TreeLoop([nodes |-> << >>, open |-> << >>, phase |-> "beforeHtml",
              original |-> "beforeHtml"],
             Tokenize(h, 0), 1).nodes

(***************************************************************************)
(* Inputs: strings made of at most a few pieces.                           *)
(***************************************************************************)

RECURSIVE Flatten(_)
Flatten(ps) == IF ps = << >> THEN << >> ELSE Head(ps) \o Flatten(Tail(ps))

\* The sequences of at most n elements of S
SeqsUpTo(S, n) == UNION {[1..k -> S] : k \in 0..n}

Strings(pieces, n) == {Flatten(ps) : ps \in SeqsUpTo(pieces, n)}

(***************************************************************************)
(* The tree checks.                                                        *)
(***************************************************************************)

\* soup.find_all(True): the tags, in document order
Tags(t) == {i \in 1..Len(t) : t[i].kind = "tag"}

Named(t, names) == {i \in Tags(t) : t[i].name \in names}

First(S) == CHOOSE i \in S : \A j \in S : i <= j

\* tag.children
Children(t, i) == {j \in 1..Len(t) : t[j].parent = i}

\* tag.parent.name; BeautifulSoup names the document "[document]"
ParentName(t, i) ==
    IF t[i].parent = 0 THEN <<"[", "d", "o", "c", "u", "m", "e", "n", "t", "]">>
    ELSE t[t[i].parent].name

\* j is among tag i's descendants
RECURSIVE IsDescendant(_, _, _)
IsDescendant(t, j, i) ==
    /\ t[j].parent # 0
    /\ \/ t[j].parent = i
       \/ IsDescendant(t, t[j].parent, i)

\* bool(s.strip())
StripsToNonEmpty(cs) == \E k \in 1..Len(cs) : ~IsPySpace(cs[k])

\* isinstance(child, str): NavigableString and its subclass Comment
IsStr(node) == node.kind \in {"text", "comment"}

\* _check_all_tags_are_allowed looking only at the tags of the input, not at
\* the html, head and body the parser adds
check_all_tags_are_allowed_SkipsWrappers(t, allowed) ==
    LET bad == {i \in Tags(t) : t[i].name \notin allowed \cup {NameHtml, NameHead, NameBody}}
    IN  IF bad = {} THEN Ok
        ELSE TreeError("DisallowedTag", t[First(bad)].name, << >>)

\* _check_all_tags_are_allowed
check_all_tags_are_allowed(t, allowed) ==
    LET bad == {i \in Tags(t) : t[i].name \notin allowed}
    IN  IF bad = {} THEN Ok
        ELSE TreeError("DisallowedTag", t[First(bad)].name, << >>)

\* _check_list_structure without isinstance(child, Tag): the text children
\* of a list are flagged too
check_list_structure_FlagsText(t) ==
    LET lists == Named(t, {NameUl, NameOl})
        badLists == {l \in lists :
                        \E c \in Children(t, l) : t[c].name # NameLi}
    IN  IF badLists # {}
        THEN LET l == First(badLists)
                 c == First({c \in Children(t, l) : t[c].name # NameLi})
             IN  TreeError("MalformedList", t[c].name, t[l].name)
        ELSE Ok

\* _check_list_structure
check_list_structure(t) ==
    LET lists == Named(t, {NameUl, NameOl})
        badLists == {l \in lists :
                        \E c \in Children(t, l) :
                            t[c].kind = "tag" /\ t[c].name # NameLi}
        badItems == {i \in Named(t, {NameLi}) :
                        ParentName(t, i) \notin {NameUl, NameOl}}
    IN  IF badLists # {}
        THEN LET l == First(badLists)
                 c == First({c \in Children(t, l) :
                                t[c].kind = "tag" /\ t[c].name # NameLi})
             IN  TreeError("MalformedList", t[c].name, t[l].name)
        ELSE IF badItems # {}
        THEN TreeError("MisplacedListItem", NameLi, ParentName(t, First(badItems)))
        ELSE Ok

\* p.get_text(strip=True): the stripped text nodes under p, comments left out,
\* joined; empty when each strips to nothing
HasText(t, i) ==
    \E j \in 1..Len(t) :
        /\ t[j].kind = "text"
        /\ IsDescendant(t, j, i)
        /\ StripsToNonEmpty(t[j].text)

\* _check_paragraphs with get_text() in place of get_text(strip=True)
check_paragraphs_NoStrip(t) ==
    IF \E i \in Named(t, {NameP}) :
          ~\E j \in 1..Len(t) :
              t[j].kind = "text" /\ IsDescendant(t, j, i) /\ t[j].text # << >>
    THEN TreeError("EmptyParagraph", NameP, << >>)
    ELSE Ok

\* _check_paragraphs
check_paragraphs(t) ==
    IF \E i \in Named(t, {NameP}) : ~HasText(t, i)
    THEN TreeError("EmptyParagraph", NameP, << >>)
    ELSE Ok

\* _check_for_root_level_text
check_for_root_level_text(t) ==
    LET body == First(Named(t, {NameBody}))
    IN  IF \E c \in Children(t, body) : IsStr(t[c]) /\ StripsToNonEmpty(t[c].text)
        THEN TreeError("RootLevelText", << >>, << >>)
        ELSE Ok

(***************************************************************************)
(* validate_html, one action per check it calls.  "ran" lists the checks   *)
(* called so far, in the order of the calls.                               *)
(***************************************************************************)

\* A check has returned r: go on with the next one, or raise
Proceed(stage, r, next) ==
    /\ ran' = Append(ran, stage)
    /\ IF r.kind = "Ok"
       THEN pc' = next /\ UNCHANGED result
       ELSE pc' = "done" /\ result' = r

\* Validate without the call of line 45
Validate_SkipsAmpersandScan ==
    /\ pc = "validate_html"
    /\ IF html = << >>
       THEN pc' = "done" /\ result' = Ok
       ELSE pc' = "build_tree" /\ UNCHANGED result
    /\ UNCHANGED <<html, allowed_tags, is_text_at_root_level_allowed, soup,
                   ran, position, current_pos,
                   nested, iterations>>

\* Validate without the early return of lines 42-43
Validate_NoEmptyShortcut ==
    /\ pc = "validate_html"
    /\ pc' = "scan_ampersands"
    /\ UNCHANGED <<html, allowed_tags, is_text_at_root_level_allowed, soup,
                   result, ran, position, current_pos,
                   nested, iterations>>

\* Lines 42-43 of validate_html: an empty string is valid
Validate ==
    /\ pc = "validate_html"
    /\ IF html = << >>
       THEN pc' = "done" /\ result' = Ok
       ELSE pc' = "scan_ampersands" /\ UNCHANGED result
    /\ UNCHANGED <<html, allowed_tags, is_text_at_root_level_allowed, soup,
                   ran, position, current_pos,
                   nested, iterations>>

ScanAmpersands ==
    /\ pc = "scan_ampersands"
    /\ Proceed("scan_ampersands", check_for_unescaped_ampersand(html), "build_tree")
    /\ UNCHANGED <<html, allowed_tags, is_text_at_root_level_allowed, soup,
                   position, current_pos,
                   nested, iterations>>

BuildTree ==
    /\ pc = "build_tree"
    /\ soup' = BeautifulSoup(html)
    /\ ran' = Append(ran, "build_tree")
    /\ pc' = "check_tags"
    /\ UNCHANGED <<html, allowed_tags, is_text_at_root_level_allowed, result,
                   position, current_pos,
                   nested, iterations>>

CheckTags ==
    /\ pc = "check_tags"
    /\ Proceed("check_tags", check_all_tags_are_allowed(soup, allowed_tags),
               "check_list_structure")
    /\ UNCHANGED <<html, allowed_tags, is_text_at_root_level_allowed, soup,
                   position, current_pos,
                   nested, iterations>>

CheckListStructure ==
    /\ pc = "check_list_structure"
    /\ Proceed("check_list_structure", check_list_structure(soup),
               "check_paragraphs")
    /\ UNCHANGED <<html, allowed_tags, is_text_at_root_level_allowed, soup,
                   position, current_pos,
                   nested, iterations>>

CheckParagraphs ==
    /\ pc = "check_paragraphs"
    /\ Proceed("check_paragraphs", check_paragraphs(soup), "check_root_level_text")
    /\ UNCHANGED <<html, allowed_tags, is_text_at_root_level_allowed, soup,
                   position, current_pos,
                   nested, iterations>>

\* if not is_text_at_root_level_allowed: _check_for_root_level_text(soup)
CheckRootLevelText ==
    /\ pc = "check_root_level_text"
    /\ IF is_text_at_root_level_allowed
       THEN pc' = "scan_unclosed_tags" /\ UNCHANGED <<ran, result>>
       ELSE Proceed("check_root_level_text", check_for_root_level_text(soup),
                    "scan_unclosed_tags")
    /\ UNCHANGED <<html, allowed_tags, is_text_at_root_level_allowed, soup,
                   position, current_pos,
                   nested, iterations>>

ScanUnclosedTags ==
    /\ pc = "scan_unclosed_tags"
    /\ ran' = Append(ran, "scan_unclosed_tags")
    /\ result' = check_for_unclosed_tags(html)
    /\ pc' = "done"
    /\ UNCHANGED <<html, allowed_tags, is_text_at_root_level_allowed, soup,
                   position, current_pos,
                   nested, iterations>>

Next ==
    \/ Validate
    \/ ScanAmpersands
    \/ BuildTree
    \/ CheckTags
    \/ CheckListStructure
    \/ CheckParagraphs
    \/ CheckRootLevelText
    \/ ScanUnclosedTags

(***************************************************************************)
(* The calls checked: validate_html on documents of a few pieces, and on   *)
(* the documents of the repository's tests that the tree builder above     *)
(* covers, with text shortened to "x".                                     *)
(***************************************************************************)

MaxPieces == 3

PStart == <<"<", "p", ">">>

PEnd == <<"<", "/", "p", ">">>

UlStart == <<"<", "u", "l", ">">>

UlEnd == <<"<", "/", "u", "l", ">">>

OlStart == <<"<", "o", "l", ">">>

OlEnd == <<"<", "/", "o", "l", ">">>

LiStart == <<"<", "l", "i", ">">>

LiEnd == <<"<", "/", "l", "i", ">">>

DivStart == <<"<", "d", "i", "v", ">">>

DivEnd == <<"<", "/", "d", "i", "v", ">">>

SpanStart == <<"<", "s", "p", "a", "n", ">">>

SpanEnd == <<"<", "/", "s", "p", "a", "n", ">">>

Br == <<"<", "b", "r", ">">>

X == <<"x">>

Sp == <<" ">>

Amp == <<"&">>

Lt == <<"<">>

AmpEntity == <<"&", "a", "m", "p", ";">>

LtEntity == <<"&", "l", "t", ";">>

TabReference == <<"&", "#", "9", ";">>

Comment == <<"<", "!", "-", "-", "x", "-", "-", ">">>

Paragraph == PStart \o X \o PEnd

Item == LiStart \o X \o LiEnd

Pieces == {PStart, PEnd, X, UlStart, LiStart, DivStart, Br, Amp, Comment,
           Paragraph}

\* <name>content</name>
Element(name, content) ==
    <<"<">> \o name \o <<">">> \o content \o <<"<", "/">> \o name \o <<">">>

Nl == <<"\n">>

NameA == <<"a">>

NameB == <<"b">>

NameI == <<"i">>

NameU == <<"u">>

NameEm == <<"e", "m">>

NameStrong == <<"s", "t", "r", "o", "n", "g">>

NameSub == <<"s", "u", "b">>

NameSup == <<"s", "u", "p">>

\* <a href='#'>x</a>
Link == <<"<", "a", " ", "h", "r", "e", "f", "=", "'", "#", "'", ">">> \o X
            \o <<"<", "/", "a", ">">>

\* "<html><head><title>Title</title></head><body><p>Content</p></body></html>"
BasicStructure ==
    Element(NameHtml, Element(NameHead, Element(NameTitle, X))
                          \o Element(NameBody, Paragraph))

\* The same without the title
BasicStructureUntitled ==
    Element(NameHtml, Element(NameHead, << >>) \o Element(NameBody, Paragraph))

\* "<p>This is <b>bold</b>, <i>italic</i>, <u>underlined</u>, ..."
TextFormatting ==
    Element(NameP, X \o Sp \o Element(NameB, X) \o Sp \o Element(NameI, X) \o Sp
                     \o Element(NameU, X) \o Sp \o X)

\* "... <em>emphasized</em>, <strong>strong</strong> text.</p>"
TextEmphasis ==
    Element(NameP, Element(NameEm, X) \o Sp \o Element(NameStrong, X) \o Sp \o X)

\* "<p>Subscript: H<sub>2</sub>O, Superscript: x<sup>2</sup></p>"
SubAndSup ==
    Element(NameP, X \o Element(NameSub, <<"2">>) \o X \o Sp \o X
                     \o Element(NameSup, <<"2">>))

\* "<p>Visit <a href='https://example.com'>example</a> for more info</p>"
Links == Element(NameP, X \o Sp \o Link \o Sp \o X)

\* A list whose items hold formatting tags and a link, as in the "complex
\* nesting" case of the tests
ListWithFormatting ==
    Element(NameUl, Element(NameLi, X \o Sp \o Element(NameB, X))
                        \o Nl \o Element(NameLi, Link))

\* The "complex nesting" case of the tests, shortened: a skeleton written on
\* several lines, with a heading and a paragraph
ComplexNesting ==
    Element(NameHtml,
        Nl \o Element(NameHead, Nl)
        \o Nl \o Element(NameBody, Element(NameH1, X) \o Paragraph \o Nl)
        \o Nl)

\* The same without h1
ComplexNestingPlain ==
    Element(NameHtml,
        Nl \o Element(NameHead, Nl)
        \o Nl \o Element(NameBody, Nl \o Paragraph \o Nl)
        \o Nl)

\* A heading and a paragraph in a body
HeadingInBody ==
    Element(NameHtml, Element(NameHead, << >>)
                          \o Element(NameBody, Element(NameH1, X) \o Paragraph))

TestDocuments ==
    { \* the valid cases of the tests
      UlStart \o Item \o Item \o Item \o UlEnd,
      OlStart \o Item \o Item \o OlEnd,
      UlStart \o Sp \o Item \o Sp \o LiStart \o X \o UlStart \o Item \o UlEnd
          \o LiEnd \o Sp \o UlEnd,
      Paragraph \o UlStart \o Item \o UlEnd \o Paragraph,
      PStart \o X \o Sp \o LtEntity \o Sp \o X \o PEnd,
      PStart \o X \o AmpEntity \o AmpEntity \o X \o PEnd,
      \* the invalid cases of the tests
      DivStart \o X \o DivEnd,
      PStart \o SpanStart \o X \o SpanEnd \o PEnd,
      PStart \o X \o Br \o X \o PEnd,
      UlStart \o Paragraph \o UlEnd,
      UlStart \o Item \o Paragraph \o UlEnd,
      Item,
      PStart \o PEnd,
      PStart \o Sp \o Sp \o PEnd,
      PStart \o X \o PStart \o X \o PEnd \o PEnd,
      X \o Sp \o X,
      Paragraph \o X,
      PStart \o X \o Amp \o X \o PEnd,
      PStart \o Amp \o X \o <<";">> \o PEnd,
      PStart \o <<"&", "a", "m", "p">> \o PEnd,
      PStart \o X \o PStart,
      PStart \o X \o Sp \o Lt \o X \o PEnd,
      PStart \o X \o Sp \o Lt \o Sp \o X \o PEnd,
      PStart \o X \o Sp \o Lt,
      \* further documents
      PStart \o X \o PStart \o X \o PEnd,
      PStart \o TabReference \o PEnd,
      PStart \o Comment \o PEnd,
      Paragraph \o Comment,
      Paragraph \o Sp \o Paragraph,
      LiStart \o UlStart \o DivStart \o X \o DivEnd \o UlEnd \o LiEnd,
      UlStart \o LiStart \o UlStart \o Paragraph \o UlEnd \o LiEnd \o DivStart
          \o X \o DivEnd \o UlEnd,
      UlStart \o X \o Item \o UlEnd,
      DivStart \o Paragraph \o DivEnd,
      Sp,
      \* the valid cases of the tests with a skeleton or formatting tags
      BasicStructure, BasicStructureUntitled, TextFormatting, TextEmphasis,
      SubAndSup, Links,
      ListWithFormatting, ComplexNesting, ComplexNestingPlain, HeadingInBody }

Documents == Strings(Pieces, MaxPieces) \cup TestDocuments

\* The default of validate_html's allowed_tags
DefaultAllowedTags ==
    {<<"a">>, <<"b">>, NameBody, <<"e", "m">>, NameHead, NameHtml, <<"i">>, NameLi,
     NameOl, NameP, <<"s", "t", "r", "o", "n", "g">>, <<"s", "u", "b">>,
     <<"s", "u", "p">>, <<"u">>, NameUl}

NameSpan == <<"s", "p", "a", "n">>

AllowedTagSets ==
    {{}, DefaultAllowedTags, DefaultAllowedTags \cup {NameDiv, NameSpan, NameBr}}

Init ==
    /\ html \in Documents
    /\ allowed_tags \in AllowedTagSets
    /\ is_text_at_root_level_allowed \in BOOLEAN
    /\ pc = "validate_html"
    /\ soup = << >>
    /\ result = NoResult
    /\ ran = << >>
    /\ position = 0
    /\ current_pos = 0
    /\ nested = NoFrame
    /\ iterations = 0

Spec == Init /\ [][Next]_vars

(***************************************************************************)
(* The raw-text scanners on their own, one action per iteration of the     *)
(* loop; "position" and "current_pos" are the loops' cursors.              *)
(***************************************************************************)

AmpersandStep ==
    /\ pc = "ampersand_loop"
    /\ position < Len(html)
    /\ LET r == AmpersandIteration(html, position)
       IN  IF r.kind = "Ok"
           THEN position' = r.at /\ UNCHANGED <<pc, result>>
           ELSE pc' = "done" /\ result' = r /\ UNCHANGED position
    /\ iterations' = iterations + 1
    /\ UNCHANGED <<html, allowed_tags, is_text_at_root_level_allowed, soup, ran,
                   current_pos,
                   nested>>

AmpersandReturn ==
    /\ pc = "ampersand_loop"
    /\ position >= Len(html)
    /\ pc' = "done"
    /\ result' = Ok
    /\ UNCHANGED <<html, allowed_tags, is_text_at_root_level_allowed, soup, ran,
                   position, current_pos,
                   nested, iterations>>

NextAmp == AmpersandStep \/ AmpersandReturn

UnclosedStep ==
    /\ pc = "unclosed_loop"
    /\ current_pos < Len(html)
    /\ LET r == UnclosedIteration(html, current_pos)
       IN  IF r.kind = "Ok"
           THEN current_pos' = r.at /\ UNCHANGED <<pc, result>>
           ELSE pc' = "done" /\ result' = r /\ UNCHANGED current_pos
    /\ iterations' = iterations + 1
    /\ UNCHANGED <<html, allowed_tags, is_text_at_root_level_allowed, soup, ran,
                   position,
                   nested>>

UnclosedReturn ==
    /\ pc = "unclosed_loop"
    /\ current_pos >= Len(html)
    /\ pc' = "done"
    /\ result' = Ok
    /\ UNCHANGED <<html, allowed_tags, is_text_at_root_level_allowed, soup, ran,
                   position, current_pos,
                   nested, iterations>>

NextScan == UnclosedStep \/ UnclosedReturn

MaxAmpPieces == 4

\* Fifty-two characters of text: longer than the snippet of a message
LongText == [k \in 1..52 |-> "y"]

AmpPieces == {Amp, <<";">>, AmpEntity, <<"#">>, <<"1">>, <<"U+00B2">>, X, LongText}

AmpStrings == Strings(AmpPieces, MaxAmpPieces)

MaxScanPieces == 4

BStart == <<"<", "b", ">">>

BEnd == <<"<", "/", "b", ">">>

ScanPieces == {BStart, BEnd, <<"<", "b">>, <<"<", "/", "b">>, <<">">>, <<"r">>, X,
               <<"<", "!", "-", "-">>,
               <<"<", "!", "d", "o", "c", "t", "y", "p", "e", " ">>}

\* <p>x <a href='#'>x</p>, of the tests
UnclosedLink ==
    PStart \o X \o Sp
        \o <<"<", "a", " ", "h", "r", "e", "f", "=", "'", "#", "'", ">">>
        \o X \o PEnd

\* <P>x</P>, <p>x</P>, <P>x</p>, <B><b>x</B></b>: tag names in upper case
UpperCaseTags ==
    {<<"<", "P", ">", "x", "<", "/", "P", ">">>,
     <<"<", "p", ">", "x", "<", "/", "P", ">">>,
     <<"<", "P", ">", "x", "<", "/", "p", ">">>,
     <<"<", "B", ">">> \o BStart \o X \o <<"<", "/", "B", ">">> \o BEnd}

\* Elements that hold an element of a longer name with the same first
\* letters: <b>x<br></b>, <b>x<br>x</b>, <i><img></i>, <li>x<link></li>,
\* <u>x<ul><li>x</li></ul></u>, <body><b>x<br>x</b></body>
SharedPrefixTags ==
    {BStart \o X \o Br \o BEnd,
     BStart \o X \o Br \o X \o BEnd,
     <<"<", "i", ">", "<", "i", "m", "g", ">", "<", "/", "i", ">">>,
     <<"<", "l", "i", ">", "x", "<", "l", "i", "n", "k", ">",
       "<", "/", "l", "i", ">">>,
     <<"<", "u", ">", "x", "<", "u", "l", ">", "<", "l", "i", ">", "x",
       "<", "/", "l", "i", ">", "<", "/", "u", "l", ">", "<", "/", "u", ">">>,
     <<"<", "b", "o", "d", "y", ">">> \o BStart \o X \o Br \o X \o BEnd
         \o <<"<", "/", "b", "o", "d", "y", ">">>}

ScanStrings ==
    Strings(ScanPieces, MaxScanPieces)
        \cup UpperCaseTags
        \cup SharedPrefixTags
        \cup {UnclosedLink,
              BStart \o BStart \o BStart \o BEnd \o BEnd \o BEnd,
              BStart \o BStart \o BStart \o BEnd \o BEnd,
              BStart \o BStart \o BEnd \o BEnd \o BEnd}

InitRaw(strings, start) ==
    /\ html \in strings
    /\ allowed_tags = {}
    /\ is_text_at_root_level_allowed = FALSE
    /\ pc = start
    /\ soup = << >>
    /\ result = NoResult
    /\ ran = << >>
    /\ position = 0
    /\ current_pos = 0
    /\ nested = NoFrame
    /\ iterations = 0

InitAmp == InitRaw(AmpStrings, "ampersand_loop")

SpecAmp == InitAmp /\ [][NextAmp]_vars

InitScan == InitRaw(ScanStrings, "unclosed_loop")

SpecScan == InitScan /\ [][NextScan]_vars

(***************************************************************************)
(* What the claims compare the runs with.                                  *)
(***************************************************************************)

\* The checks in the order the specification gives
StageOrder ==
    IF is_text_at_root_level_allowed
    THEN <<"scan_ampersands", "build_tree", "check_tags", "check_list_structure",
           "check_paragraphs", "scan_unclosed_tags">>
    ELSE <<"scan_ampersands", "build_tree", "check_tags", "check_list_structure",
           "check_paragraphs", "check_root_level_text", "scan_unclosed_tags">>

\* What a check returns on the call's arguments
StageResult(stage) ==
    CASE stage = "scan_ampersands" -> check_for_unescaped_ampersand(html)
      [] stage = "build_tree" -> Ok
      [] stage = "check_tags" ->
            check_all_tags_are_allowed(BeautifulSoup(html), allowed_tags)
      [] stage = "check_list_structure" -> check_list_structure(BeautifulSoup(html))
      [] stage = "check_paragraphs" -> check_paragraphs(BeautifulSoup(html))
      [] stage = "check_root_level_text" ->
            check_for_root_level_text(BeautifulSoup(html))
      [] stage = "scan_unclosed_tags" -> check_for_unclosed_tags(html)

Done == pc = "done"

\* The check that ran last, "" when none has run
LastRan == IF ran = << >> THEN "" ELSE ran[Len(ran)]

\* C1: validate runs its checks in the fixed order Scan Ampersands, Build
\* Tree, Check Tags, Check List Structure, Check Paragraphs, Check Root-Level
\* Text (only when root-level text is not allowed), Scan Unclosed Tags: the
\* checks that have run are an initial part of that order, a check runs only
\* when every check before it returned Ok, and the call returns what the
\* last check that ran returned, Ok only after the whole order has run.
C1_PipelineOrder ==
    /\ Len(ran) <= Len(StageOrder)
    /\ ran = SubSeq(StageOrder, 1, Len(ran))
    /\ \A k \in 1..(Len(ran) - 1) : StageResult(ran[k]).kind = "Ok"
    /\ ~Done => result = NoResult
    /\ (Done /\ html # << >>) =>
          /\ ran # << >>
          /\ result = StageResult(LastRan)
          /\ result.kind = "Ok" => ran = StageOrder

\* An input that breaks an entity rule and a tag-closure rule has been
\* reported as the ampersand error, and nothing ran after that scan.
C1_Witness ==
    /\ Done
    /\ check_for_unescaped_ampersand(html).kind # "Ok"
    /\ check_for_unclosed_tags(html).kind # "Ok"
    /\ result.kind \in {"UnescapedAmpersand", "InvalidEntity"}
    /\ ran = <<"scan_ampersands">>

\* C2: for every allowed-tag set and both values of the flag, validate on
\* the empty string returns Ok, and no scanner or tree check runs and no
\* tree is built.
C2_EmptyStringIsOk ==
    html = << >> =>
        /\ pc \in {"validate_html", "done"}
        /\ ran = << >>
        /\ soup = << >>
        /\ Done => result = Ok

\* The empty string has been accepted although no tag is allowed.
C2_Witness ==
    /\ Done
    /\ html = << >>
    /\ allowed_tags = {}
    /\ ~is_text_at_root_level_allowed
    /\ result = Ok

\* The offset of the first ";" to the right of the offset p, -1 when none
SemicolonAfter(p) == Find(html, <<";">>, p + 1)

\* The text strictly between the "&" at p and the first ";" to its right
EntityText(p) == Slice(html, p + 1, SemicolonAfter(p))

\* amp, lt, gt, quot, apos, or "#" and one or more decimal digits
IsDecimalReference(e) ==
    /\ Len(e) >= 2
    /\ e[1] = "#"
    /\ \A k \in 2..Len(e) : e[k] \in DecimalDigits

NamedOrDecimal(e) == e \in NamedEntities \/ IsDecimalReference(e)

\* The scan stands at an "&" that has a later ";"
AtEntity ==
    /\ pc = "ampersand_loop"
    /\ position < Len(html)
    /\ At(html, position) = "&"
    /\ SemicolonAfter(position) # -1

\* C3: the scan accepts an "&" that has a later ";" exactly when the text
\* between them is amp, lt, gt, quot or apos, or "#" followed by one or more
\* decimal digits, and then goes on just after the ";"; with any other text
\* there it fails InvalidEntity.
C3_EntityRule ==
    [][AtEntity =>
          IF NamedOrDecimal(EntityText(position))
          THEN pc' = "ampersand_loop" /\ position' = SemicolonAfter(position) + 1
          ELSE pc' = "done" /\ result'.kind = "InvalidEntity"]_vars

\* The offsets of the "&" with no ";" anywhere to their right
BareAmpersands ==
    {p \in 0..(Len(html) - 1) : At(html, p) = "&" /\ SemicolonAfter(p) = -1}

\* The text the scanner lets through between "&" and ";": a name of the
\* list, or "#" and one or more characters of str.isdigit
LetThrough(e) ==
    \/ e \in NamedEntities
    \/ Len(e) >= 2 /\ e[1] = "#" /\ \A k \in 2..Len(e) : e[k] \in PyDigits

\* The offsets before p of the "&" whose text up to the next ";" the scanner
\* does not let through
InvalidBefore(p) ==
    {q \in 0..(p - 1) : At(html, q) = "&" /\ ~LetThrough(EntityText(q))}

\* html[p:p + 50]
IsSnippetAt(snippet, p) ==
    /\ Len(snippet) = Min(SnippetLen, Len(html) - p)
    /\ \A k \in 1..Len(snippet) : snippet[k] = html[p + k]

\* C4 as stated: every string that contains an "&" with no ";" to its right
\* fails with UnescapedAmpersand carrying the snippet that starts at that
\* "&", whatever else the string contains.
C4_AsStated ==
    (Done /\ BareAmpersands # {}) =>
        /\ result.kind = "UnescapedAmpersand"
        /\ IsSnippetAt(result.snippet, First(BareAmpersands))

\* C4, amended: every string that contains an "&" with no ";" to its right
\* fails; it fails with UnescapedAmpersand, at the first such "&" and with
\* the snippet of up to 50 characters that starts there, when the text
\* between every earlier "&" and the next ";" is let through, and otherwise
\* with InvalidEntity at the first "&" whose text is not.  A ";" before the
\* "&" and valid entities elsewhere do not change the outcome.
C4_UnescapedAmpersand ==
    (Done /\ BareAmpersands # {}) =>
        LET p == First(BareAmpersands)
        IN  IF InvalidBefore(p) = {}
            THEN /\ result.kind = "UnescapedAmpersand"
                 /\ result.at = p
                 /\ IsSnippetAt(result.snippet, p)
            ELSE /\ result.kind = "InvalidEntity"
                 /\ result.at = First(InvalidBefore(p))

\* A string with a ";" and a valid entity before an "&" that has no ";" to
\* its right, and more than 50 characters from that "&" on, has failed with
\* UnescapedAmpersand and a snippet of 50 characters.
C4_Witness ==
    /\ Done
    /\ BareAmpersands # {}
    /\ LET p == First(BareAmpersands)
       IN  /\ Find(html, <<";">>, 0) \in 0..(p - 1)
           /\ \E q \in 0..(p - 1) : At(html, q) = "&"
           /\ Len(html) - p > SnippetLen
    /\ result.kind = "UnescapedAmpersand"
    /\ Len(result.snippet) = SnippetLen

\* The ">" that ends the tag at the cursor, -1 when none
ClosingAngle == Find(html, <<">">>, current_pos)

\* The scan stands at the opening tag of an element that is not
\* self-closing, and the tag has its ">"
AtOpeningTag ==
    /\ pc = "unclosed_loop"
    /\ current_pos < Len(html)
    /\ At(html, current_pos) = "<"
    /\ LET t == find_tag_end(html, current_pos)
       IN  /\ t.tag_name # << >>
           /\ ~t.is_closing
           /\ ~is_self_closing_tag(t.tag_name)
           /\ ~is_special_tag(t.tag_name)
    /\ ClosingAngle # -1

OpeningName == find_tag_end(html, current_pos).tag_name

\* The offsets after s at which sub occurs
OccurrencesAfter(sub, s) ==
    {i \in (s + 1)..(Len(html) - 1) : OccursAt(html, sub, i)}

Openings(n, s) == OccurrencesAfter(<<"<">> \o n, s)

Closings(n, s) == OccurrencesAfter(<<"<", "/">> \o n, s)

CompleteClosings(n, s) == OccurrencesAfter(<<"<", "/">> \o n \o <<">">>, s)

\* The specification's depth counter once every occurrence up to the offset
\* i is counted: 1, plus 1 for each "<n", minus 1 for each "</n"
DepthAt(n, s, i) ==
    1 + Cardinality({o \in Openings(n, s) : o <= i})
      - Cardinality({c \in Closings(n, s) : c <= i})

\* The depth counter returns to 0
ReturnsToZero(n, s) == \E i \in Closings(n, s) : DepthAt(n, s, i) = 0

\* The step taken fails UnclosedTag for (n, s)
FailsUnclosed(n, s) ==
    /\ pc' = "done"
    /\ result'.kind = "UnclosedTag"
    /\ result'.name = n
    /\ result'.at = s

\* C5 as stated: at each opening tag it reaches, the scanner fails
\* UnclosedTag for the tag's name and offset exactly when the depth counter
\* never returns to 0.
C5_AsStated ==
    [][AtOpeningTag =>
          (FailsUnclosed(OpeningName, current_pos)
              <=> ~ReturnsToZero(OpeningName, current_pos))]_vars

\* No "<n" follows s, or a complete "</n>" comes before the first one
ClosedBeforeNesting(n, s) ==
    \/ Openings(n, s) = {}
    \/ /\ CompleteClosings(n, s) # {}
       /\ First(CompleteClosings(n, s)) < First(Openings(n, s))

\* C5, amended: at each opening tag of a non-self-closing element that the
\* scanner reaches at offset s with name n, it fails UnclosedTag for (n, s)
\* exactly when: no complete closing tag "</n>" follows s, in case no "<n"
\* follows s or a complete "</n>" comes before the first "<n" after s; and
\* in every other case, the depth counter of the specification (start at 1
\* after s, take the occurrences of "<n" and "</n" in the order of their
\* offsets, +1 and -1) never returns to 0.  Otherwise the scan goes on after
\* the tag's ">".
C5_UnclosedTag ==
    [][AtOpeningTag =>
          LET n == OpeningName
              s == current_pos
              unclosed == IF ClosedBeforeNesting(n, s)
                          THEN CompleteClosings(n, s) = {}
                          ELSE ~ReturnsToZero(n, s)
          IN  IF unclosed
              THEN FailsUnclosed(n, s)
              ELSE pc' = "unclosed_loop" /\ current_pos' = ClosingAngle + 1]_vars

\* <p>Unclosed <a href='#'>link</p> of the tests has failed as an unclosed
\* "a" at the offset of its "<a".
C5_Witness ==
    /\ Done
    /\ html = UnclosedLink
    /\ result.kind = "UnclosedTag"
    /\ result.name = <<"a">>
    /\ result.at = 5
    /\ OccursAt(html, <<"<", "a">>, result.at)

\* The scan stands at a comment or doctype marker
AtMarker ==
    /\ pc = "unclosed_loop"
    /\ current_pos < Len(html)
    /\ \/ OccursAt(html, <<"<", "!", "-", "-">>, current_pos)
       \/ OccursAt(html, <<"<", "!", "d", "o", "c", "t", "y", "p", "e">>, current_pos)

\* C6: at a doctype or comment marker the scanner skips to the next ">" and
\* resumes after it, and fails UnclosedTag when no ">" follows the marker.
C6_SpecialTags ==
    [][AtMarker =>
          IF ClosingAngle = -1
          THEN pc' = "done" /\ result'.kind = "UnclosedTag"
          ELSE pc' = "unclosed_loop" /\ current_pos' = ClosingAngle + 1]_vars

\* The check named has just run: it raised, or the next one is about to run
JustRan(stage) == LastRan = stage /\ soup = BeautifulSoup(html)

Raised(kind) == Done /\ result.kind = kind

\* (a) every tag that is a direct child of a ul or ol is an li
ListsHoldItems(t) ==
    \A c \in Tags(t) :
        (t[c].parent # 0 /\ t[t[c].parent].name \in {NameUl, NameOl})
            => t[c].name = NameLi

\* (b) the direct parent of every li is a ul or ol
ItemsAreInLists(t) ==
    \A i \in Tags(t) :
        t[i].name = NameLi
            => (t[i].parent # 0 /\ t[t[i].parent].name \in {NameUl, NameOl})

\* C7: check_list_structure returns Ok exactly when (a) every tag that is a
\* direct child of a ul or ol is named li and (b) the parent of every li is
\* a ul or ol; a tree that breaks (a) fails MalformedList, whether or not it
\* breaks (b), a tree that breaks only (b) fails MisplacedListItem, and the
\* text children of a list count for nothing.
C7_ListStructure ==
    JustRan("check_list_structure") =>
        /\ ~Done <=> (ListsHoldItems(soup) /\ ItemsAreInLists(soup))
        /\ ~ListsHoldItems(soup) => Raised("MalformedList")
        /\ (ListsHoldItems(soup) /\ ~ItemsAreInLists(soup))
              => Raised("MisplacedListItem")

\* A tree that breaks both rules, an li outside a list and a div inside one,
\* has failed MalformedList.
C7_Witness ==
    /\ JustRan("check_list_structure")
    /\ ~ListsHoldItems(soup)
    /\ ~ItemsAreInLists(soup)
    /\ Raised("MalformedList")

\* The text of the text nodes under tag i, in document order
RECURSIVE TextFrom(_, _, _)
TextFrom(t, i, j) ==
    IF j > Len(t) THEN << >>
    ELSE (IF t[j].kind = "text" /\ IsDescendant(t, j, i) THEN t[j].text ELSE << >>)
            \o TextFrom(t, i, j + 1)

\* Some p has no text but whitespace
HasEmptyParagraph(t) ==
    \E i \in Tags(t) :
        /\ t[i].name = NameP
        /\ \A k \in 1..Len(TextFrom(t, i, 1)) : IsPySpace(TextFrom(t, i, 1)[k])

\* The input opens a p inside an open p: two "<p>" with no "</p>" between
OpensParagraphInParagraph(h) ==
    \E i, j \in 0..(Len(h) - 1) :
        /\ i < j
        /\ OccursAt(h, PStart, i)
        /\ OccursAt(h, PStart, j)
        /\ \A k \in (i + 1)..(j - 1) : ~OccursAt(h, PEnd, k)

\* C8 as stated: every input with a nested or unterminated second <p> that
\* comes to check_paragraphs is rejected with EmptyParagraph.
C8_AsStated ==
    (/\ Done
     /\ allowed_tags = DefaultAllowedTags
     /\ \E k \in 1..Len(ran) : ran[k] = "check_paragraphs"
     /\ OpensParagraphInParagraph(html))
        => result.kind = "EmptyParagraph"

NestedParagraphs == PStart \o X \o PStart \o X \o PEnd \o PEnd

UnterminatedParagraph == PStart \o X \o PStart

SecondParagraphClosed == PStart \o X \o PStart \o X \o PEnd

\* C8, amended: check_paragraphs fails EmptyParagraph exactly when the tree
\* has a p whose descendant text, concatenated, is empty once whitespace is
\* stripped.  A p opened inside an open p becomes a sibling of it, and the
\* input is rejected with EmptyParagraph only when one of the paragraphs of
\* the tree is empty: <p>x<p>x</p></p> and <p>x<p> are, with the default
\* tags, while <p>x<p>x</p> passes check_paragraphs and is rejected with
\* UnclosedTag by the last scan; <p>x</p> passes.
C8_EmptyParagraph ==
    /\ JustRan("check_paragraphs")
          => (Raised("EmptyParagraph") <=> HasEmptyParagraph(soup))
    /\ JustRan("check_paragraphs") => (~Done <=> ~HasEmptyParagraph(soup))
    /\ (Done /\ allowed_tags = DefaultAllowedTags) =>
          /\ html \in {NestedParagraphs, UnterminatedParagraph}
                => result.kind = "EmptyParagraph"
          /\ html = SecondParagraphClosed
                => /\ ~HasEmptyParagraph(soup)
                   /\ result.kind = "UnclosedTag"
          /\ html = Paragraph => result = Ok

\* <p>x<p>x</p></p> has been rejected for the empty paragraph that the
\* parser makes of the second </p>.
C8_Witness ==
    /\ Done
    /\ html = NestedParagraphs
    /\ allowed_tags = DefaultAllowedTags
    /\ HasEmptyParagraph(soup)
    /\ result.kind = "EmptyParagraph"

\* Some direct child of body is a text node with more than whitespace
HasRootLevelText(t) ==
    \E c \in 1..Len(t) :
        /\ t[c].kind = "text"
        /\ t[c].parent # 0
        /\ t[t[c].parent].name = NameBody
        /\ \E k \in 1..Len(t[c].text) : ~IsPySpace(t[c].text[k])

\* C9: the root-level-text check runs only when root-level text is not
\* allowed, and then fails RootLevelText exactly when some direct child of
\* the body is a text node that is not empty once whitespace is stripped.
C9_RootLevelText ==
    JustRan("check_root_level_text") =>
        /\ ~is_text_at_root_level_allowed
        /\ Raised("RootLevelText") <=> HasRootLevelText(soup)

HasTagNamed(t, names) == \E i \in 1..Len(t) : t[i].kind = "tag" /\ t[i].name \in names

\* C10: with the default allowed tags, every non-empty input whose tree has
\* a div, a span or a br is rejected, for both values of the flag; and
\* check_all_tags_are_allowed fails DisallowedTag, naming a tag that is not
\* allowed, exactly when some tag of the tree, the html, head and body of
\* the parser included, has a name that is not in allowed_tags.
C10_DisallowedTags ==
    /\ (/\ Done
        /\ html # << >>
        /\ allowed_tags = DefaultAllowedTags
        /\ HasTagNamed(BeautifulSoup(html), {NameDiv, NameSpan, NameBr}))
          => result.kind \notin {"Ok", "none"}
    /\ JustRan("check_tags") =>
          /\ Raised("DisallowedTag")
                <=> \E i \in 1..Len(soup) :
                       soup[i].kind = "tag" /\ soup[i].name \notin allowed_tags
          /\ ~Done <=> \A i \in 1..Len(soup) :
                          soup[i].kind = "tag" => soup[i].name \in allowed_tags
          /\ Done => result.name \notin allowed_tags

\* <br> alone has been rejected as a tag that is not allowed, although
\* root-level text is allowed.
C10_Witness ==
    /\ Done
    /\ html = Br
    /\ is_text_at_root_level_allowed
    /\ allowed_tags = DefaultAllowedTags
    /\ HasTagNamed(soup, {NameBr})
    /\ result.kind = "DisallowedTag"
    /\ result.name = NameBr

(***************************************************************************)
(* Calls of validate_html in sequence on one allowed_tags object.  The     *)
(* parameter is an Iterable[str]: a container (tuple, list, set), which a  *)
(* membership test leaves alone, or a one-shot iterator (iter(...), a      *)
(* generator), which a membership test consumes.  In this specification    *)
(* allowed_tags holds the object, [one_shot, items], items being what an   *)
(* iterator has left; ran holds one record per call made.                  *)
(***************************************************************************)

\* tag.name in allowed_tags (line 63): whether found, and the object after.
\* On an iterator the test consumes the items up to the first equal one, all
\* of them when there is none.
Contains(obj, name) ==
    LET at == {k \in 1..Len(obj.items) : obj.items[k] = name}
    IN  IF ~obj.one_shot
        THEN [found |-> at # {}, allowed_tags |-> obj]
        ELSE IF at = {}
        THEN [found |-> FALSE, allowed_tags |-> [obj EXCEPT !.items = << >>]]
        ELSE [found |-> TRUE,
              allowed_tags |-> [obj EXCEPT !.items = Slice(@, First(at), Len(@))]]

\* The loop of _check_all_tags_are_allowed from node i on: what it returns
\* and the object after; sorted(allowed_tags) of the message takes what an
\* iterator has left
RECURSIVE AllowedLoop(_, _, _)
AllowedLoop(t, i, obj) ==
    IF i > Len(t) THEN [result |-> Ok, allowed_tags |-> obj]
    ELSE IF t[i].kind # "tag" THEN AllowedLoop(t, i + 1, obj)
    ELSE LET m == Contains(obj, t[i].name)
         IN  IF m.found THEN AllowedLoop(t, i + 1, m.allowed_tags)
             ELSE [result |-> TreeError("DisallowedTag", t[i].name, << >>),
                   allowed_tags |->
                       IF obj.one_shot THEN [obj EXCEPT !.items = << >>] ELSE obj]

\* The checks after _check_all_tags_are_allowed, lines 50-57
AfterTagsCheck(h, t, flag) ==
    IF check_list_structure(t).kind # "Ok" THEN check_list_structure(t)
    ELSE IF check_paragraphs(t).kind # "Ok" THEN check_paragraphs(t)
    ELSE IF ~flag /\ check_for_root_level_text(t).kind # "Ok"
    THEN check_for_root_level_text(t)
    ELSE check_for_unclosed_tags(h)

\* One whole call: what it returns and the allowed_tags object after
validate_html(h, obj, flag) ==
    IF h = << >> THEN [result |-> Ok, allowed_tags |-> obj]
    ELSE IF check_for_unescaped_ampersand(h).kind # "Ok"
    THEN [result |-> check_for_unescaped_ampersand(h), allowed_tags |-> obj]
    ELSE LET t == BeautifulSoup(h)
             a == AllowedLoop(t, 1, obj)
         IN  IF a.result.kind # "Ok" THEN a
             ELSE [result |-> AfterTagsCheck(h, t, flag),
                   allowed_tags |-> a.allowed_tags]

MaxCalls == 3

CallDocuments ==
    {<< >>, Paragraph, X, Br, PStart \o Amp \o PEnd,
     UlStart \o Item \o UlEnd, PStart \o X}

\* The default of the signature, in its order
DefaultAllowedTagsTuple ==
    <<<<"a">>, <<"b">>, NameBody, <<"e", "m">>, NameHead, NameHtml, <<"i">>,
      NameLi, NameOl, NameP, <<"s", "t", "r", "o", "n", "g">>, <<"s", "u", "b">>,
      <<"s", "u", "p">>, <<"u">>, NameUl>>

AllowedTagObjects ==
    [one_shot : BOOLEAN,
     items : {DefaultAllowedTagsTuple,
              <<NameHtml, NameHead, NameBody, NameP>>,
              <<NameP, NameHtml, NameHead, NameBody>>,
              << >>}]

\* A call of validate_html, from its entry to its return
Call ==
    /\ pc = "call"
    /\ Len(ran) < MaxCalls
    /\ \E h \in CallDocuments :
          LET r == validate_html(h, allowed_tags, is_text_at_root_level_allowed)
          IN  /\ html' = h
              /\ result' = r.result
              /\ allowed_tags' = r.allowed_tags
              /\ ran' = Append(ran, [html |-> h, allowed_tags |-> allowed_tags,
                                     result |-> r.result])
    /\ UNCHANGED <<is_text_at_root_level_allowed, pc, soup, position, current_pos,
                   nested, iterations>>

NextCall == Call

InitCalls ==
    /\ html = << >>
    /\ allowed_tags \in AllowedTagObjects
    /\ is_text_at_root_level_allowed \in BOOLEAN
    /\ pc = "call"
    /\ soup = << >>
    /\ result = NoResult
    /\ ran = << >>
    /\ position = 0
    /\ current_pos = 0
    /\ nested = NoFrame
    /\ iterations = 0

SpecCalls == InitCalls /\ [][NextCall]_vars

\* C11: validate is a pure function of its arguments: of the calls made on
\* one allowed_tags object, in any order and with calls on other inputs in
\* between, any two with the same html return the same result, and every
\* call leaves the allowed_tags object as it found it.
C11_Pure ==
    /\ \A i, j \in 1..Len(ran) :
          ran[i].html = ran[j].html => ran[i].result = ran[j].result
    /\ \A i \in 1..Len(ran) : ran[i].allowed_tags = ran[1].allowed_tags
    /\ ran # << >> => allowed_tags = ran[1].allowed_tags

\* The "<" at offset i starts no tag: what follows is not a letter, "/" or
\* "!", and the parser takes it for text
IsLiteralLessThan(h, i) ==
    /\ At(h, i) = "<"
    /\ \/ i + 1 >= Len(h)
       \/ ~(\/ At(h, i + 1) \in LowerLetters \cup UpperLetters
            \/ At(h, i + 1) \in {"/", "!", "?"})

\* Some text node of the tree holds a "<"
HasLessThanInText(t) ==
    \E j \in 1..Len(t) :
        t[j].kind = "text" /\ \E k \in 1..Len(t[j].text) : t[j].text[k] = "<"

\* C12: with the default options validate rejects every input that has, in
\* its text content, a literal "<" that starts no tag: such an input never
\* returns Ok.
C12_LiteralLessThanRejected ==
    (/\ Done
     /\ allowed_tags = DefaultAllowedTags
     /\ ~is_text_at_root_level_allowed
     /\ \E i \in 0..(Len(html) - 1) : IsLiteralLessThan(html, i)
     /\ HasLessThanInText(BeautifulSoup(html)))
        => result.kind # "Ok"

\* Well-formed, properly nested documents of the kind the tests list as
\* valid: a skeleton with a title, a body with h1, p, formatting tags and
\* lists of li
WellFormedDocuments ==
    {BasicStructure, BasicStructureUntitled, TextFormatting, TextEmphasis,
      SubAndSup, Links,
     UlStart \o Item \o Item \o Item \o UlEnd,
     OlStart \o Item \o Item \o OlEnd,
     UlStart \o Sp \o Item \o Sp \o LiStart \o X \o UlStart \o Item \o UlEnd
         \o LiEnd \o Sp \o UlEnd,
     Paragraph \o UlStart \o Item \o UlEnd \o Paragraph,
     ListWithFormatting, ComplexNesting, ComplexNestingPlain, HeadingInBody}

\* C13: with the default allowed tags and root-level text not allowed,
\* validate returns Ok on every well-formed, properly nested document of the
\* kind the tests list as valid, title and h1 included.
C13_ValidDocumentsAccepted ==
    (/\ Done
     /\ allowed_tags = DefaultAllowedTags
     /\ ~is_text_at_root_level_allowed
     /\ html \in WellFormedDocuments)
        => result = Ok

\* C14: the unclosed-tag scanner folds the case of tag names consistently:
\* writing the tag names of the input in another letter case does not change
\* whether the scan accepts it, so the scan accepts the input exactly when
\* it accepts the input written in lower case.
C14_CaseFolding ==
    (pc = "done" /\ ran = << >>) =>
        (result.kind = "Ok" <=> check_for_unclosed_tags(Lower(html)).kind = "Ok")

(***************************************************************************)
(* _check_nested_tags step by step, one action per iteration of its loop,  *)
(* and the three raw-text loops together.                                  *)
(***************************************************************************)

\* The error of lines 194-197 and 217-220
UnclosedFrom(frame) ==
    ParsingError("UnclosedTag", frame.tag_name, frame.start_pos,
                 Window(html, frame.start_pos))

\* Lines 189-201: the test before the loop
NestedEnter ==
    /\ pc = "check_nested_tags"
    /\ LET closing_tag == <<"<", "/">> \o nested.tag_name \o <<">">>
           next_open == Find(html, <<"<">> \o nested.tag_name, nested.start_pos + 1)
           next_close == Find(html, closing_tag, nested.start_pos + 1)
       IN  IF next_open = -1 \/ (next_close # -1 /\ next_close < next_open)
           THEN /\ pc' = "done"
                /\ result' = IF next_close = -1 THEN UnclosedFrom(nested) ELSE Ok
                /\ UNCHANGED nested
           ELSE /\ pc' = "nested_loop"
                /\ nested' = [nested EXCEPT !.nested_level = 1,
                                            !.pos = nested.start_pos + 1]
                /\ UNCHANGED result
    /\ UNCHANGED <<html, allowed_tags, is_text_at_root_level_allowed, soup, ran,
                   position, current_pos, iterations>>

\* An iteration that leaves the cursor on the "<" it has found
NestedStep_StaysAtMatch ==
    /\ pc = "nested_loop"
    /\ nested.pos < Len(html)
    /\ nested.nested_level > 0
    /\ LET next_open == Find(html, <<"<">> \o nested.tag_name, nested.pos)
           next_close == Find(html, <<"<", "/">> \o nested.tag_name, nested.pos)
       IN  IF next_open # -1 /\ (next_close = -1 \/ next_open < next_close)
           THEN /\ nested' = [nested EXCEPT !.nested_level = @ + 1,
                                            !.pos = next_open]
                /\ UNCHANGED pc
           ELSE IF next_close # -1
           THEN /\ nested' = [nested EXCEPT !.nested_level = @ - 1,
                                            !.pos = next_close]
                /\ UNCHANGED pc
           ELSE pc' = "nested_exit" /\ UNCHANGED nested
    /\ iterations' = iterations + 1
    /\ UNCHANGED <<html, allowed_tags, is_text_at_root_level_allowed, soup, ran,
                   position, current_pos, result>>

\* Lines 202-214: one iteration of the loop
NestedStep ==
    /\ pc = "nested_loop"
    /\ nested.pos < Len(html)
    /\ nested.nested_level > 0
    /\ LET next_open == Find(html, <<"<">> \o nested.tag_name, nested.pos)
           next_close == Find(html, <<"<", "/">> \o nested.tag_name, nested.pos)
       IN  IF next_open # -1 /\ (next_close = -1 \/ next_open < next_close)
           THEN /\ nested' = [nested EXCEPT !.nested_level = @ + 1,
                                            !.pos = next_open + 1]
                /\ UNCHANGED pc
           ELSE IF next_close # -1
           THEN /\ nested' = [nested EXCEPT !.nested_level = @ - 1,
                                            !.pos = next_close + 1]
                /\ UNCHANGED pc
           ELSE pc' = "nested_exit" /\ UNCHANGED nested
    /\ iterations' = iterations + 1
    /\ UNCHANGED <<html, allowed_tags, is_text_at_root_level_allowed, soup, ran,
                   position, current_pos, result>>

\* Lines 216-221: after the loop
NestedReturn ==
    /\ \/ pc = "nested_exit"
       \/ /\ pc = "nested_loop"
          /\ ~(nested.pos < Len(html) /\ nested.nested_level > 0)
    /\ pc' = "done"
    /\ result' = IF nested.nested_level > 0 THEN UnclosedFrom(nested) ELSE Ok
    /\ UNCHANGED <<html, allowed_tags, is_text_at_root_level_allowed, soup, ran,
                   position, current_pos, nested, iterations>>

NextNested == NestedEnter \/ NestedStep \/ NestedReturn

\* The offsets at which _check_for_unclosed_tags calls _check_nested_tags
\* (lines 159-160): an opening tag of an element that is not self-closing
NestedCalls(h) ==
    {s \in 0..(Len(h) - 1) :
        /\ At(h, s) = "<"
        /\ find_tag_end(h, s).tag_name # << >>
        /\ ~find_tag_end(h, s).is_closing
        /\ ~is_self_closing_tag(find_tag_end(h, s).tag_name)
        /\ Find(h, <<">">>, s) # -1}

MaxLoopPieces == 2

\* The strings the three loops are run on together
LoopAmpStrings == Strings(AmpPieces \ {LongText}, MaxLoopPieces)

LoopScanStrings == Strings(ScanPieces, MaxLoopPieces)

\* The strings _check_nested_tags is called on: deeper nestings as well
LoopNestedStrings ==
    LoopScanStrings
        \cup {UnclosedLink,
              BStart \o BStart \o BStart \o BEnd \o BEnd \o BEnd,
              BStart \o BStart \o BEnd \o BEnd \o BEnd}

\* No scanner has been called yet
InitLoops ==
    /\ html = << >>
    /\ allowed_tags = {}
    /\ is_text_at_root_level_allowed = FALSE
    /\ pc = "call"
    /\ soup = << >>
    /\ result = NoResult
    /\ ran = << >>
    /\ position = 0
    /\ current_pos = 0
    /\ nested = NoFrame
    /\ iterations = 0

\* _check_for_unescaped_ampersand(html) or _check_for_unclosed_tags(html) is
\* called: the cursor is set to 0 (lines 108 and 128)
CallScanner ==
    /\ pc = "call"
    /\ \/ pc' = "ampersand_loop" /\ html' \in LoopAmpStrings
       \/ pc' = "unclosed_loop" /\ html' \in LoopScanStrings
    /\ position' = 0
    /\ current_pos' = 0
    /\ UNCHANGED <<allowed_tags, is_text_at_root_level_allowed, soup, result, ran,
                   nested, iterations>>

\* _check_nested_tags(html, tag_name, start_pos) is called
CallNested ==
    /\ pc = "call"
    /\ pc' = "check_nested_tags"
    /\ \E h \in LoopNestedStrings :
          /\ html' = h
          /\ \E s \in NestedCalls(h) :
                nested' = [tag_name |-> find_tag_end(h, s).tag_name,
                           start_pos |-> s, pos |-> 0, nested_level |-> 0]
    /\ UNCHANGED <<allowed_tags, is_text_at_root_level_allowed, soup, result, ran,
                   position, current_pos, iterations>>

NextLoops == CallScanner \/ CallNested \/ NextAmp \/ NextScan \/ NextNested

\* The three loops: a scanner that has been called runs on while it has a
\* step to take
SpecLoops ==
    InitLoops /\ [][NextLoops]_vars /\ WF_vars(NextAmp \/ NextScan \/ NextNested)

\* An iteration after which the loop goes on: where the cursor is then
CursorAdvances ==
    /\ pc # "call" => html' = html
    /\ (pc = "ampersand_loop" /\ pc' = "ampersand_loop") =>
          /\ position' > position
          /\ position' = IF At(html, position) = "&"
                         THEN Find(html, <<";">>, position) + 1
                         ELSE position + 1
    /\ (pc = "unclosed_loop" /\ pc' = "unclosed_loop") =>
          /\ current_pos' > current_pos
          /\ current_pos' = IF /\ At(html, current_pos) = "<"
                               /\ find_tag_end(html, current_pos).tag_name # << >>
                            THEN Find(html, <<">">>, current_pos) + 1
                            ELSE current_pos + 1
    /\ (pc = "nested_loop" /\ pc' = "nested_loop") =>
          /\ nested'.pos > nested.pos
          /\ At(html, nested'.pos - 1) = "<"

RECURSIVE ProperlyClosedFrom(_, _, _)
ProperlyClosedFrom(h, i, open) ==
    IF i >= Len(h)
    THEN open = << >>
    ELSE LET t == find_tag_end(h, i)
             gt == Find(h, <<">">>, i)
         IN  IF At(h, i) # "<" \/ t.tag_name = << >>
             THEN ProperlyClosedFrom(h, i + 1, open)
             ELSE IF gt = -1
             THEN FALSE
             ELSE IF \/ At(h, t.tag_end) \notin {">", " "}
                     \/ Find(h, <<"<">>, i + 1) \in (i + 1)..gt
                     \/ Slice(h, t.tag_end - Len(t.tag_name), t.tag_end)
                            # t.tag_name
             THEN FALSE
             ELSE IF t.is_closing
             THEN /\ gt = t.tag_end
                  /\ open # << >>
                  /\ open[Len(open)] = t.tag_name
                  /\ ProperlyClosedFrom(h, gt + 1, SubSeq(open, 1, Len(open) - 1))
             ELSE IF is_self_closing_tag(t.tag_name)
             THEN ProperlyClosedFrom(h, gt + 1, open)
             ELSE ProperlyClosedFrom(h, gt + 1, Append(open, t.tag_name))

ProperlyClosed(h) == ProperlyClosedFrom(h, 0, << >>)

\* C16: the unclosed-tag scan of a string whose every opening tag of a
\* non-self-closing element is followed by its own closing tag, with
\* correct nesting, returns Ok: a tag of a longer name that starts with the
\* same letters (<br after <b>, <img after <i>) counts neither as a nested
\* opening nor as a closing of the shorter name.
C16_ProperlyClosedAccepted ==
    (pc = "done" /\ ran = << >> /\ ProperlyClosed(html)) => result.kind = "Ok"

====
